---- MODULE Spec2Model ----
(***************************************************************************)
(* Strategy backtesting engine of apps/api/app/strategies:                 *)
(*   base.py            Strategy.backtest, _execute_trades,                *)
(*                      _calculate_metrics                                 *)
(*   sma_cross.py, macd_rsi.py, bollinger.py   the signal generators       *)
(*   backtest_engine.py BacktestEngine.run_backtest                        *)
(*                                                                         *)
(* Numbers.  The code computes in IEEE doubles.  Here prices, capital and  *)
(* share counts are integers and a commission rate is k / RateDen, so      *)
(* every amount of money the code can hold is a multiple of 1 / RateDen:   *)
(* cash, equity, value, commission and cash_flow are held multiplied by    *)
(* RateDen and are then exact integers.  The one value of a double that an *)
(* integer cannot stand for and that the code does produce, NaN, is the    *)
(* distinguished number NaN below, with the arithmetic and the comparisons *)
(* of IEEE 754 (anything with NaN is NaN, every ordered comparison with    *)
(* NaN is false, != with NaN is true).                                     *)
(***************************************************************************)
EXTENDS Integers, Sequences, FiniteSets, TLC

VARIABLES
    data,             \* the price bars handed to backtest / found by the engine
    family,           \* strategy_family of the request
    params,           \* params of the request
    initial_capital,  \* initial_capital of the request
    commission,       \* commission rate of the request, as k of k / RateDen
    strategy,         \* the Strategy instance: family, params, equity_curve
    signals_df,       \* what generate_signals returned
    frame,            \* locals of the running _execute_trades
    pc,               \* where the invocation stands
    last,             \* what the latest loop iteration of _execute_trades did
    results,          \* the values returned so far, oldest first
    clock,            \* the wall clock read by datetime.now()
    shadow,           \* locals of a second run: _execute_trades at twice the rate,
                      \* or a second run_backtest invocation in flight
    response          \* what the POST /run handler has answered and saved

vars == <<data, family, params, initial_capital, commission, strategy,
          signals_df, frame, pc, last, results, clock, shadow, response>>

---------------------------------------------------------------------------
(* Bounds of the model *)

MaxBars == 3
MaxRuns == 2
MaxClock == 1
MaxPairBars == 4
MaxConcurrentBars == 2
RateDen == 20

Closes == {1, 5}
EngineCloses == {1, 2, 5}
Capitals == {2, 10}
Rates == {0, 2}
EngineRates == {2}

(* Program constants *)

ALLOC_NUM == 95
ALLOC_DEN == 100

---------------------------------------------------------------------------
(* IEEE arithmetic on the numbers of the model *)

NaN == -99999999

IsNaN(x) == x = NaN

Mul(a, b) == IF IsNaN(a) \/ IsNaN(b) THEN NaN ELSE a * b

Add(a, b) == IF IsNaN(a) \/ IsNaN(b) THEN NaN ELSE a + b

Sub(a, b) == IF IsNaN(a) \/ IsNaN(b) THEN NaN ELSE a - b

Neg(a) == IF IsNaN(a) THEN NaN ELSE 0 - a

Abs(a) == IF IsNaN(a) THEN NaN ELSE IF a < 0 THEN 0 - a ELSE a

Ne(a, b) == IF IsNaN(a) \/ IsNaN(b) THEN TRUE ELSE a # b

Gt(a, b) == IF IsNaN(a) \/ IsNaN(b) THEN FALSE ELSE a > b

Ge(a, b) == IF IsNaN(a) \/ IsNaN(b) THEN FALSE ELSE a >= b

Sign(a) == IF a > 0 THEN 1 ELSE IF a < 0 THEN -1 ELSE 0

\* int(a / b) for b > 0: truncation toward zero
Trunc(a, b) == IF a >= 0 THEN a \div b ELSE 0 - ((0 - a) \div b)

---------------------------------------------------------------------------
(* Strategy._execute_trades, one iteration of its loop *)

\* the close trade recorded with the shares of the position, not their negation
CloseTradeSameSide(date, price, position, rate) ==
    [date |-> date, action |-> "close", price |-> price,
     shares |-> position,
     value |-> Mul(Mul(Abs(position), price), RateDen),
     commission |-> Mul(Mul(Abs(position), price), rate),
     cash_flow |-> Sub(Mul(Mul(position, price), RateDen),
                       Mul(Mul(Abs(position), price), rate))]

\* the close trade of lines 82-90
CloseTrade(date, price, position, rate) ==
    [date |-> date, action |-> "close", price |-> price,
     shares |-> Neg(position),
     value |-> Mul(Mul(Abs(position), price), RateDen),
     commission |-> Mul(Mul(Abs(position), price), rate),
     cash_flow |-> Sub(Mul(Mul(position, price), RateDen),
                       Mul(Mul(Abs(position), price), rate))]

\* shares = int(cash * 0.95 / price), for a cash that is a number
ShareCount(cash, price) == Trunc(ALLOC_NUM * cash, ALLOC_DEN * RateDen * price)

\* the open leg charged no commission
OpenTradeFree(date, price, shares, signal, rate) ==
    [date |-> date, action |-> "open", price |-> price,
     shares |-> Mul(shares, signal),
     value |-> shares * price * RateDen,
     commission |-> 0,
     cash_flow |-> 0 - shares * price * RateDen]

\* the open trade of lines 97-105
OpenTrade(date, price, shares, signal, rate) ==
    [date |-> date, action |-> "open", price |-> price,
     shares |-> Mul(shares, signal),
     value |-> shares * price * RateDen,
     commission |-> shares * price * rate,
     cash_flow |-> (0 - shares * price * RateDen) - shares * price * rate]

\* cash moved by the trade's value alone, the commission left out
SettleGross(cash, trade) ==
    Add(cash, Add(trade.cash_flow, trade.commission))

\* cash += trade["cash_flow"]
Settle(cash, trade) == Add(cash, trade.cash_flow)

\* an open trade also for a share count of 0
AffordableOrZero(shares) == shares >= 0

\* if shares > 0
Affordable(shares) == shares > 0

\* only a long position is closed
HoldingLong(position) == Gt(position, 0)

\* if position != 0
Holding(position) == Ne(position, 0)

\* if signal != position
SignalChanged(signal, position) == Ne(signal, position)

\* the position valued as a long position whatever its sign
SnapshotUnsigned(date, cash, position, price) ==
    [date |-> date,
     equity |-> Add(cash, Mul(Mul(Abs(position), price), RateDen)),
     cash |-> cash, position |-> position, price |-> price]

\* the snapshot of lines 115-122
Snapshot(date, cash, position, price) ==
    [date |-> date,
     equity |-> Add(cash, Mul(Mul(position, price), RateDen)),
     cash |-> cash, position |-> position, price |-> price]

\* The body of the loop, lines 76-122, on the locals f and one row.  The result
\* carries the new locals, the snapshot to append to self.equity_curve (none
\* when int() raised before it) and what happened on the bar.
ExecuteBar(f, date, row, rate) ==
    LET signal == row.signal
        price == row.close
        changed == SignalChanged(signal, f.position)
        closing == changed /\ Holding(f.position)
        ctrade == CloseTrade(date, price, f.position, rate)
        cash1 == IF closing THEN Settle(f.cash, ctrade) ELSE f.cash
        trades1 == IF closing THEN Append(f.trades, ctrade) ELSE f.trades
        sizing == changed /\ Ne(signal, 0)
        raised == sizing /\ IsNaN(cash1)
        shares == IF sizing /\ ~raised THEN ShareCount(cash1, price) ELSE 0
        opening == sizing /\ ~raised /\ Affordable(shares)
        otrade == OpenTrade(date, price, shares, signal, rate)
        cash2 == IF opening THEN Settle(cash1, otrade) ELSE cash1
        trades2 == IF opening THEN Append(trades1, otrade) ELSE trades1
        position2 == IF ~changed THEN f.position
                     ELSE IF opening THEN Mul(shares, signal) ELSE 0
        snap == Snapshot(date, cash2, position2, price)
    IN  [position |-> IF raised THEN f.position ELSE position2,
         cash |-> IF raised THEN cash1 ELSE cash2,
         equity |-> IF raised THEN f.equity ELSE snap.equity,
         trades |-> IF raised THEN trades1 ELSE trades2,
         raised |-> raised,
         snapshots |-> IF raised THEN <<>> ELSE <<snap>>,
         did |-> [date |-> date, signal |-> signal, price |-> price,
                  position_in |-> f.position, cash_in |-> f.cash,
                  cash_closed |-> cash1,
                  closed |-> closing, sized |-> sizing /\ ~raised,
                  shares |-> shares, opened |-> opening,
                  emitted |-> Len(IF raised THEN trades1 ELSE trades2) - Len(f.trades)]]

---------------------------------------------------------------------------
(* Strategy._calculate_metrics *)

\* equity_values = [ec["equity"] for ec in self.equity_curve]
EquityValues(equity_curve) == [k \in 1..Len(equity_curve) |-> equity_curve[k].equity]

\* len(pd.Series(equity_values).pct_change().dropna()): the bars k >= 2 whose
\* return E_k / E_(k-1) - 1 is a number (NaN when either is NaN, or 0 / 0)
ReturnCount(ev) ==
    Cardinality({k \in 2..Len(ev) :
        ~IsNaN(ev[k]) /\ ~IsNaN(ev[k - 1]) /\ ~(ev[k] = 0 /\ ev[k - 1] = 0)})

\* peak = expanding().max() at bar k: the largest number among ev[1..k], NaN
\* when there is none
PeakAt(ev, k) ==
    LET nums == {ev[j] : j \in {j \in 1..k : ~IsNaN(ev[j])}}
    IN  IF nums = {} THEN NaN ELSE CHOOSE m \in nums : \A x \in nums : x <= m

\* drawdown = (equity - peak) / peak at bar k, as the fraction num / den; den = 0
\* with num < 0 is -inf; NaN is num = NaN
DrawdownAt(ev, k) ==
    LET peak == PeakAt(ev, k)
    IN  IF IsNaN(ev[k]) \/ IsNaN(peak) \/ (peak = 0 /\ ev[k] = 0)
        THEN [num |-> NaN, den |-> 1]
        ELSE [num |-> ev[k] - peak, den |-> peak]

\* x < y for two fractions that are numbers (or -inf)
FracLess(x, y) ==
    IF x.den = 0 THEN y.den # 0
    ELSE IF y.den = 0 THEN FALSE
    ELSE (x.num * y.den - y.num * x.den) * Sign(x.den) * Sign(y.den) < 0

\* max_drawdown = drawdown.min(): the least drawdown that is a number
MaxDrawdown(ev) ==
    LET dds == {DrawdownAt(ev, k) : k \in 1..Len(ev)}
        nums == {d \in dds : ~IsNaN(d.num)}
    IN  IF nums = {} THEN [num |-> NaN, den |-> 1]
        ELSE CHOOSE d \in nums : \A e \in nums : ~FracLess(e, d)

\* the returns taken before the trade list is looked at
CalculateMetricsReturnsFirst(trades, capital, equity_curve) ==
    LET ev == EquityValues(equity_curve)
    IN  IF ReturnCount(ev) = 0
        THEN [raised |-> TRUE, metrics |-> [error |-> "division by zero"]]
        ELSE IF trades = <<>>
        THEN [raised |-> FALSE, metrics |-> [error |-> "No trades executed"]]
        ELSE [raised |-> FALSE,
              metrics |->
                [total_return |-> [num |-> Sub(ev[Len(ev)], capital * RateDen),
                                   den |-> capital * RateDen],
                 max_drawdown |-> MaxDrawdown(ev),
                 total_trades |-> Len(trades) \div 2,
                 final_equity |-> ev[Len(ev)]]]

\* the trades paired as the loop of lines 147-153 pairs them: trades[i] with
\* trades[i + 1] for i = 0, 2, 4, ... while i + 1 < len(trades)
TradePairs(trades) ==
    [j \in 1..(Len(trades) \div 2) |->
        [open_trade |-> trades[2 * j - 1], close_trade |-> trades[2 * j]]]

\* trade_return = (close_trade["price"] - open_trade["price"]) / open_trade["price"]
TradeReturns(trades) ==
    [j \in 1..(Len(trades) \div 2) |->
        [num |-> TradePairs(trades)[j].close_trade.price
                    - TradePairs(trades)[j].open_trade.price,
         den |-> TradePairs(trades)[j].open_trade.price]]

\* a trailing open counted as a round trip
CalculateMetricsCountsOpen(trades, capital, equity_curve) ==
    LET ev == EquityValues(equity_curve)
    IN  IF trades = <<>>
        THEN [raised |-> FALSE, metrics |-> [error |-> "No trades executed"]]
        ELSE IF ReturnCount(ev) = 0
        THEN [raised |-> TRUE, metrics |-> [error |-> "division by zero"]]
        ELSE [raised |-> FALSE,
              metrics |->
                [total_return |-> [num |-> Sub(ev[Len(ev)], capital * RateDen),
                                   den |-> capital * RateDen],
                 max_drawdown |-> MaxDrawdown(ev),
                 total_trades |-> (Len(trades) + 1) \div 2,
                 final_equity |-> ev[Len(ev)]]]

\* the total return taken over the first snapshot instead of initial_capital
CalculateMetricsFromFirst(trades, capital, equity_curve) ==
    LET ev == EquityValues(equity_curve)
    IN  IF trades = <<>>
        THEN [raised |-> FALSE, metrics |-> [error |-> "No trades executed"]]
        ELSE IF ReturnCount(ev) = 0
        THEN [raised |-> TRUE, metrics |-> [error |-> "division by zero"]]
        ELSE [raised |-> FALSE,
              metrics |->
                [total_return |-> [num |-> Sub(ev[Len(ev)], ev[1]),
                                   den |-> ev[1]],
                 max_drawdown |-> MaxDrawdown(ev),
                 total_trades |-> Len(trades) \div 2,
                 final_equity |-> ev[Len(ev)]]]

\* _calculate_metrics(trades, initial_capital) on self.equity_curve.  The record
\* holds the metrics that are rational in the inputs: total_return and
\* max_drawdown as fractions, total_trades and final_equity.  raised stands for
\* the ZeroDivisionError of 252 / len(returns).
CalculateMetrics(trades, capital, equity_curve) ==
    LET ev == EquityValues(equity_curve)
    IN  IF trades = <<>>
        THEN [raised |-> FALSE, metrics |-> [error |-> "No trades executed"]]
        ELSE IF ReturnCount(ev) = 0
        THEN [raised |-> TRUE, metrics |-> [error |-> "division by zero"]]
        ELSE [raised |-> FALSE,
              metrics |->
                [total_return |-> [num |-> Sub(ev[Len(ev)], capital * RateDen),
                                   den |-> capital * RateDen],
                 max_drawdown |-> MaxDrawdown(ev),
                 total_trades |-> Len(trades) \div 2,
                 final_equity |-> ev[Len(ev)]]]

---------------------------------------------------------------------------
(* Exact fractions for the indicators.  A rolling mean, an exponentially    *)
(* weighted mean and a band are rational in the closes (a band after        *)
(* squaring); they are computed exactly and compared exactly, where the     *)
(* code compares their nearest doubles.                                     *)

RECURSIVE Gcd(_, _)
Gcd(a, b) == IF b = 0 THEN a ELSE Gcd(b, a % b)

\* n / d in lowest terms, d > 0
Frac(n, d) ==
    LET g == Gcd(IF n < 0 THEN 0 - n ELSE n, d)
    IN  [num |-> n \div g, den |-> d \div g]

FAdd(x, y) ==
    LET l == (x.den \div Gcd(x.den, y.den)) * y.den
    IN  Frac(x.num * (l \div x.den) + y.num * (l \div y.den), l)

FSub(x, y) == FAdd(x, [num |-> 0 - y.num, den |-> y.den])

FScale(k, x) == Frac(k * x.num, x.den)

\* the sign of x - y
FCompare(x, y) == Sign(FSub(x, y).num)

RECURSIVE Pow(_, _)
Pow(a, n) == IF n = 0 THEN 1 ELSE a * Pow(a, n - 1)

\* closes of rows k - w + 1 .. k, summed
RECURSIVE WindowSum(_, _, _)
WindowSum(df, k, w) ==
    IF w = 0 THEN 0 ELSE df[k].close + WindowSum(df, k - 1, w - 1)

\* their squares, summed
RECURSIVE WindowSumSq(_, _, _)
WindowSumSq(df, k, w) ==
    IF w = 0 THEN 0 ELSE df[k].close * df[k].close + WindowSumSq(df, k - 1, w - 1)

\* ---- the ratio entries of the metrics dict, lines 133-169.  They are
\* computed from the arguments of _calculate_metrics like the entries above;
\* annualized_return and volatility are irrational in the inputs and are
\* carried as the expressions they are.

\* the bars whose return survives pct_change().dropna()
ReturnBars(ev) ==
    {k \in 2..Len(ev) :
        ~IsNaN(ev[k]) /\ ~IsNaN(ev[k - 1]) /\ ~(ev[k] = 0 /\ ev[k - 1] = 0)}

\* the return of bar k, E_k / E_(k-1) - 1, as the fraction num / den (den = 0 is
\* an infinite return)
ReturnAt(ev, k) == [num |-> ev[k] - ev[k - 1], den |-> ev[k - 1]]

\* annualized_return = (1 + total_return) ** (252 / len(returns)) - 1, line 137
AnnualizedReturn(ev, capital) ==
    [base |-> [num |-> ev[Len(ev)], den |-> capital * RateDen],
     exponent |-> [num |-> 252, den |-> Cardinality(ReturnBars(ev))]]

\* volatility = returns.std() * np.sqrt(252), line 138: NaN for fewer than two
\* returns or an infinite one, 0 when the returns are all equal, else positive
Volatility(ev) ==
    LET bars == ReturnBars(ev)
    IN  [class |-> IF Cardinality(bars) < 2 \/ \E k \in bars : ev[k - 1] = 0
                   THEN "nan"
                   ELSE IF \A j, k \in bars :
                              ReturnAt(ev, j).num * ReturnAt(ev, k).den
                                  = ReturnAt(ev, k).num * ReturnAt(ev, j).den
                   THEN "zero" ELSE "positive",
         std_of |-> [k \in bars |-> ReturnAt(ev, k)]]

\* the literal 0 of an else branch
ZeroMetric == [value |-> 0]

\* the quotient taken with no test of the volatility
SharpeRatioUnguarded(annualized_return, volatility) ==
    [num |-> annualized_return, den |-> volatility]

\* annualized_return / volatility if volatility > 0 else 0, line 139
SharpeRatio(annualized_return, volatility) ==
    IF volatility.class = "positive"
    THEN [num |-> annualized_return, den |-> volatility]
    ELSE ZeroMetric

\* float(annualized_return / abs(max_drawdown)) if max_drawdown != 0 else 0,
\* line 165
CalmarRatio(annualized_return, max_drawdown) ==
    IF Ne(max_drawdown.num, 0)
    THEN [num |-> annualized_return, den |-> [abs |-> max_drawdown]]
    ELSE ZeroMetric

IsWin(r) == r.num > 0

IsLoss(r) == r.num < 0

RECURSIVE FSum(_)
FSum(rs) == IF rs = <<>> THEN [num |-> 0, den |-> 1] ELSE FAdd(rs[1], FSum(Tail(rs)))

\* np.mean(rs)
FMean(rs) == Frac(FSum(rs).num, FSum(rs).den * Len(rs))

\* len([r for r in trade_returns if r > 0]) / len(trade_returns)
\* if trade_returns else 0, line 155
WinRate(trade_returns) ==
    IF trade_returns # <<>>
    THEN [num |-> Len(SelectSeq(trade_returns, IsWin)), den |-> Len(trade_returns)]
    ELSE ZeroMetric

\* line 156
AvgWin(trade_returns) ==
    IF \E j \in 1..Len(trade_returns) : IsWin(trade_returns[j])
    THEN FMean(SelectSeq(trade_returns, IsWin)) ELSE [num |-> 0, den |-> 1]

\* line 157
AvgLoss(trade_returns) ==
    IF \E j \in 1..Len(trade_returns) : IsLoss(trade_returns[j])
    THEN FMean(SelectSeq(trade_returns, IsLoss)) ELSE [num |-> 0, den |-> 1]

\* float(abs(avg_win / avg_loss)) if avg_loss != 0 else 0, line 169
ProfitFactor(avg_win, avg_loss) ==
    IF avg_loss.num # 0
    THEN Frac(avg_win.num * avg_loss.den, avg_win.den * (0 - avg_loss.num))
    ELSE ZeroMetric

\* the ratio entries of the dict returned at lines 159-172
RatioMetrics(trades, capital, equity_curve) ==
    LET ev == EquityValues(equity_curve)
        trade_returns == TradeReturns(trades)
    IN  [volatility |-> Volatility(ev),
         sharpe_ratio |-> SharpeRatio(AnnualizedReturn(ev, capital), Volatility(ev)),
         calmar_ratio |-> CalmarRatio(AnnualizedReturn(ev, capital), MaxDrawdown(ev)),
         win_rate |-> WinRate(trade_returns),
         avg_win |-> AvgWin(trade_returns),
         avg_loss |-> AvgLoss(trade_returns),
         profit_factor |-> ProfitFactor(AvgWin(trade_returns),
                                        AvgLoss(trade_returns))]

---------------------------------------------------------------------------
(* SMACrossoverStrategy *)

\* __init__, sma_cross.py lines 18-19: params.get with its default
SHORT_WINDOW_DEFAULT == 20
LONG_WINDOW_DEFAULT == 50

ShortWindow(ps) ==
    IF "short_window" \in DOMAIN ps THEN ps.short_window ELSE SHORT_WINDOW_DEFAULT

LongWindow(ps) ==
    IF "long_window" \in DOMAIN ps THEN ps.long_window ELSE LONG_WINDOW_DEFAULT

\* validate_params, sma_cross.py lines 21-38
SmaValidateParams(ps) ==
    /\ "short_window" \in DOMAIN ps /\ "long_window" \in DOMAIN ps
    /\ ps.short_window > 0 /\ ps.long_window > 0
    /\ ps.short_window < ps.long_window

\* the signal column after lines 48-54: the order of the two rolling means at
\* row k, 0 while either window is not full (a comparison with NaN is false)
SmaRaw(df, k, ps) ==
    IF k < ShortWindow(ps) \/ k < LongWindow(ps) THEN 0
    ELSE Sign(WindowSum(df, k, ShortWindow(ps)) * LongWindow(ps)
              - WindowSum(df, k, LongWindow(ps)) * ShortWindow(ps))

\* data['signal'].diff() at row k, lines 57-58: NaN on the first row
SmaSignalAt(df, k, ps) ==
    IF k = 1 THEN NaN ELSE SmaRaw(df, k, ps) - SmaRaw(df, k - 1, ps)

\* the rows whose rolling means are not both defined dropped
SmaSignalsDropWarmup(df, ps) ==
    LET lw == LongWindow(ps)
        kept == IF Len(df) < lw THEN 0 ELSE Len(df) - lw + 1
    IN  [j \in 1..kept |->
            [date |-> df[j + lw - 1].date,
             close |-> df[j + lw - 1].close,
             signal |-> SmaSignalAt(df, j + lw - 1, ps)]]

\* generate_signals, sma_cross.py lines 40-67
SmaSignals(df, ps) ==
    [k \in 1..Len(df) |->
        [date |-> df[k].date, close |-> df[k].close,
         signal |-> SmaSignalAt(df, k, ps)]]

---------------------------------------------------------------------------
(* MACDRSIStrategy *)

RSI_OVERSOLD == 30
RSI_OVERBOUGHT == 70

\* A threshold as the request gave it: [num |-> n] for a number, [str |-> s] for
\* a string.  __init__, macd_rsi.py lines 22-23: params.get with its default;
\* validate_params does not look at the thresholds.
RsiOversold(ps) ==
    IF "rsi_oversold" \in DOMAIN ps THEN ps.rsi_oversold ELSE [num |-> RSI_OVERSOLD]

RsiOverbought(ps) ==
    IF "rsi_overbought" \in DOMAIN ps THEN ps.rsi_overbought
    ELSE [num |-> RSI_OVERBOUGHT]

IsNumber(v) == "num" \in DOMAIN v

\* validate_params, macd_rsi.py lines 25-42
MacdValidateParams(ps) ==
    /\ "macd_fast" \in DOMAIN ps /\ "macd_slow" \in DOMAIN ps
    /\ "macd_signal" \in DOMAIN ps /\ "rsi_period" \in DOMAIN ps
    /\ ps.macd_fast > 0 /\ ps.macd_slow > 0
    /\ ps.macd_signal > 0 /\ ps.rsi_period > 0
    /\ ps.macd_fast < ps.macd_slow

\* ewm(span).mean() at row t of the series xs of fractions (adjust=True): the
\* mean of xs[t], xs[t-1], ... with weights 1, q, q^2, ..., q = (span-1)/(span+1)
RECURSIVE EwmNum(_, _, _, _, _)
EwmNum(xs, a, b, t, i) ==
    IF i = t THEN [num |-> 0, den |-> 1]
    ELSE FAdd(FScale(Pow(a, i) * Pow(b, t - 1 - i), xs[t - i]),
              EwmNum(xs, a, b, t, i + 1))

RECURSIVE EwmDen(_, _, _, _)
EwmDen(a, b, t, i) ==
    IF i = t THEN 0 ELSE Pow(a, i) * Pow(b, t - 1 - i) + EwmDen(a, b, t, i + 1)

Ewm(xs, span, t) ==
    LET g == Gcd(span - 1, span + 1)
        a == (span - 1) \div g
        b == (span + 1) \div g
        n == EwmNum(xs, a, b, t, 0)
    IN  Frac(n.num, n.den * EwmDen(a, b, t, 0))

CloseSeries(df) == [k \in 1..Len(df) |-> [num |-> df[k].close, den |-> 1]]

\* data['macd'], lines 48-50
MacdLine(df, ps) ==
    [k \in 1..Len(df) |->
        FSub(Ewm(CloseSeries(df), ps.macd_fast, k),
             Ewm(CloseSeries(df), ps.macd_slow, k))]

\* data['macd_signal'], line 51
MacdSignalLine(df, ps) ==
    LET m == MacdLine(df, ps)
    IN  [k \in 1..Len(df) |-> Ewm(m, ps.macd_signal, k)]

\* delta.where(delta > 0, 0) and -delta.where(delta < 0, 0) at row k; the
\* delta of the first row is NaN and becomes 0
GainAt(df, k) ==
    IF k > 1 /\ df[k].close > df[k - 1].close
    THEN df[k].close - df[k - 1].close ELSE 0

LossAt(df, k) ==
    IF k > 1 /\ df[k].close < df[k - 1].close
    THEN df[k - 1].close - df[k].close ELSE 0

RECURSIVE GainSum(_, _, _)
GainSum(df, k, w) == IF w = 0 THEN 0 ELSE GainAt(df, k) + GainSum(df, k - 1, w - 1)

RECURSIVE LossSum(_, _, _)
LossSum(df, k, w) == IF w = 0 THEN 0 ELSE LossAt(df, k) + LossSum(df, k - 1, w - 1)

\* data['rsi'] at row k, lines 55-59, as the fraction 100 * gain / (gain + loss)
\* of the window sums; defined is FALSE where the code holds NaN: the window
\* is not full, or gain and loss are both 0 (0 / 0)
RsiAt(df, k, ps) ==
    IF k < ps.rsi_period THEN [defined |-> FALSE, num |-> 0, den |-> 1]
    ELSE LET g == GainSum(df, k, ps.rsi_period)
             l == LossSum(df, k, ps.rsi_period)
         IN  IF g = 0 /\ l = 0 THEN [defined |-> FALSE, num |-> 0, den |-> 1]
             ELSE [defined |-> TRUE, num |-> 100 * g, den |-> g + l]

\* The comparison of the rsi column with a threshold raises TypeError when the
\* threshold is a string: at line 68 for rsi_overbought, else at line 76 for
\* rsi_oversold.  The except of lines 85-87 then returns the frame as it is.
MacdRaisedAtBuy(ps) == ~IsNumber(RsiOverbought(ps))

MacdRaisedAtSell(ps) == ~MacdRaisedAtBuy(ps) /\ ~IsNumber(RsiOversold(ps))

MacdRaised(ps) == MacdRaisedAtBuy(ps) \/ MacdRaisedAtSell(ps)

\* the signal of row k, lines 62-78: 0 from line 62 when the buy condition
\* raised, the buys of line 70 alone when the sell condition raised
MacdSignalAt(df, k, ps) ==
    LET m == MacdLine(df, ps)
        s == MacdSignalLine(df, ps)
        rsi == RsiAt(df, k, ps)
        buy == /\ FCompare(m[k], s[k]) > 0
               /\ k > 1 /\ FCompare(m[k - 1], s[k - 1]) <= 0
               /\ rsi.defined /\ rsi.num < RsiOverbought(ps).num * rsi.den
        sell == /\ FCompare(m[k], s[k]) < 0
                /\ k > 1 /\ FCompare(m[k - 1], s[k - 1]) >= 0
                /\ rsi.defined /\ rsi.num > RsiOversold(ps).num * rsi.den
    IN  IF MacdRaisedAtBuy(ps) THEN 0
        ELSE IF MacdRaisedAtSell(ps) THEN (IF buy THEN 1 ELSE 0)
        ELSE IF sell THEN -1 ELSE IF buy THEN 1 ELSE 0

\* generate_signals, macd_rsi.py lines 44-87
MacdSignals(df, ps) ==
    [k \in 1..Len(df) |->
        [date |-> df[k].date, close |-> df[k].close,
         signal |-> MacdSignalAt(df, k, ps)]]

---------------------------------------------------------------------------
(* BollingerBandsStrategy.  std_dev and exit_threshold are fractions.        *)

\* validate_params, bollinger.py lines 22-40
BollingerValidateParams(ps) ==
    /\ "period" \in DOMAIN ps /\ "std_dev" \in DOMAIN ps
    /\ "exit_threshold" \in DOMAIN ps
    /\ ps.period > 0
    /\ ps.std_dev.num > 0
    /\ ps.exit_threshold.num > 0

\* The signal of row k, lines 46-70.  With S and Q the sums of the window's
\* closes and of their squares, p the period and c the close:
\*   dev = p * c - S            is  p * (close - sma)
\*   var = p * Q - S * S        is  p * (p - 1) * std^2
\* and, squaring, close <= lower_band is dev <= 0 with
\* dev^2 * (p - 1) >= std_dev^2 * p * var, and bb_position within
\* 0.5 +- exit_threshold is dev^2 * (p - 1) <= 4 * std_dev^2 *
\* exit_threshold^2 * p * var.  The bands are NaN while the window is not full
\* and for a period of 1 (no sample deviation); bb_position is NaN when the
\* bands coincide (0 / 0).
BollingerSignalAt(df, k, ps) ==
    LET p == ps.period
        c == df[k].close
        S == WindowSum(df, k, p)
        Q == WindowSumSq(df, k, p)
        dev == p * c - S
        var == p * Q - S * S
        kn == ps.std_dev.num
        kd == ps.std_dev.den
        tn == ps.exit_threshold.num
        td == ps.exit_threshold.den
        out == dev * dev * kd * kd * (p - 1) >= kn * kn * p * var
        buy == dev <= 0 /\ out
        sell == dev >= 0 /\ out
        exit == /\ var > 0
                /\ dev * dev * kd * kd * td * td * (p - 1)
                      <= 4 * kn * kn * tn * tn * p * var
    IN  IF k < p \/ p = 1 THEN 0
        ELSE IF exit THEN 0
        ELSE IF sell THEN -1
        ELSE IF buy THEN 1
        ELSE 0

\* generate_signals, bollinger.py lines 42-79
BollingerSignals(df, ps) ==
    [k \in 1..Len(df) |->
        [date |-> df[k].date, close |-> df[k].close,
         signal |-> BollingerSignalAt(df, k, ps)]]

---------------------------------------------------------------------------
(* Strategy: construction, generate_signals of a subclass, backtest *)

\* the name each subclass hands to Strategy.__init__
StrategyName(fam) ==
    CASE fam = "sma_crossover" -> "SMA Crossover"
      [] fam = "macd_rsi" -> "MACD + RSI"
      [] fam = "bollinger_bands" -> "Bollinger Bands"
      [] OTHER -> fam

\* an instance that takes over the equity_curve list of the instance before it
NewStrategyShared(fam, ps) ==
    [family |-> fam, name |-> StrategyName(fam), params |-> ps,
     equity_curve |-> strategy.equity_curve]

\* Strategy.__init__, called by the subclass's __init__
NewStrategy(fam, ps) ==
    [family |-> fam, name |-> StrategyName(fam), params |-> ps,
     equity_curve |-> <<>>]

\* generate_signals of a Strategy subclass that answers with the signal column
\* it was constructed with: the abstract method, any implementation of it
ScriptedSignals(df, ps) ==
    [k \in 1..Len(df) |->
        [date |-> df[k].date, close |-> df[k].close, signal |-> ps.signal[k]]]

\* generate_signals of the instance's class ran into its except branch
GenerateRaised(fam, ps) == fam = "macd_rsi" /\ MacdRaised(ps)

\* self.generate_signals(data.copy()) of the instance's class
GenerateSignals(fam, ps, df) ==
    CASE fam = "sma_crossover" -> SmaSignals(df, ps)
      [] fam = "macd_rsi" -> MacdSignals(df, ps)
      [] fam = "bollinger_bands" -> BollingerSignals(df, ps)
      [] OTHER -> ScriptedSignals(df, ps)

\* the locals of _execute_trades before its loop, lines 70-73; i counts the
\* rows the loop has consumed
NewFrame(capital, via) ==
    [trades |-> <<>>, position |-> 0, cash |-> capital * RateDen,
     equity |-> capital * RateDen, i |-> 0, via |-> via]

NoBar ==
    [date |-> 0, signal |-> 0, price |-> 0, position_in |-> 0, cash_in |-> 0,
     cash_closed |-> 0, closed |-> FALSE, sized |-> FALSE, shares |-> 0,
     opened |-> FALSE, emitted |-> 0]

\* no request has been answered: no status, nothing saved
NoResponse == [ticker_found |-> TRUE, status |-> 0, detail |-> "", saves |-> 0]

\* self.equity_curve.append(...)
AppendSnapshots(s, snapshots) ==
    [s EXCEPT !.equity_curve = s.equity_curve \o snapshots]

\* the value backtest returns, lines 50-57
BacktestResult(s, trades, metrics, now) ==
    [strategy_name |-> s.name, parameters |-> s.params, trades |-> trades,
     metrics |-> metrics, equity_curve |-> s.equity_curve,
     backtest_date |-> now]

\* except Exception as e: return {"error": str(e)}
ErrorResult(msg) == [error |-> msg]

\* the bar sequences of n bars: dates 1..n in order, closes drawn from closes
Bars(n, closes) ==
    {[k \in 1..n |-> [date |-> k, close |-> c[k]]] : c \in [1..n -> closes]}

Signals == {-1, 0, 1}

Init ==
    /\ \E n \in 0..MaxBars :
          /\ data \in Bars(n, Closes)
          /\ \E sig \in [1..n -> Signals] : params = [signal |-> sig]
    /\ family = "scripted"
    /\ initial_capital \in Capitals
    /\ commission \in Rates
    /\ strategy = NewStrategy(family, params)
    /\ signals_df = <<>>
    /\ frame = NewFrame(initial_capital, "caller")
    /\ pc = "idle"
    /\ last = NoBar
    /\ results = <<>>
    /\ clock = 0
    /\ response = NoResponse
    /\ shadow = NewFrame(initial_capital, "none")

\* backtest is entered: generate_signals(data.copy()), then _execute_trades
\* starts, lines 40-45 and 70-73
Backtest ==
    /\ pc \in {"idle", "returned"}
    /\ Len(results) < MaxRuns
    /\ signals_df' = GenerateSignals(strategy.family, strategy.params, data)
    /\ frame' = NewFrame(initial_capital, "caller")
    /\ pc' = "execute"
    /\ last' = NoBar
    /\ UNCHANGED <<data, family, params, initial_capital, commission, strategy,
                   results, clock, shadow, response>>

\* one iteration of the loop of _execute_trades; an exception in it ends
\* backtest with the error result of lines 59-61
ExecuteTrades ==
    /\ pc = "execute"
    /\ frame.i < Len(signals_df)
    /\ LET row == signals_df[frame.i + 1]
           r == ExecuteBar(frame, row.date, row, commission)
       IN  /\ frame' = [frame EXCEPT !.trades = r.trades, !.position = r.position,
                                     !.cash = r.cash, !.equity = r.equity,
                                     !.i = frame.i + 1]
           /\ strategy' = AppendSnapshots(strategy, r.snapshots)
           /\ last' = r.did
           /\ pc' = IF r.raised THEN "returned" ELSE "execute"
           /\ results' = IF r.raised
                         THEN Append(results,
                                ErrorResult("cannot convert float NaN to integer"))
                         ELSE results
    /\ UNCHANGED <<data, family, params, initial_capital, commission,
                   signals_df, clock, shadow, response>>

\* the loop is over: _calculate_metrics, and the value backtest returns
BacktestValue ==
    LET m == CalculateMetrics(frame.trades, initial_capital, strategy.equity_curve)
    IN  IF m.raised THEN ErrorResult(m.metrics.error)
        ELSE BacktestResult(strategy, frame.trades, m.metrics, clock)

Return ==
    /\ pc = "execute"
    /\ frame.via = "caller"
    /\ frame.i = Len(signals_df)
    /\ results' = Append(results, BacktestValue)
    /\ pc' = "returned"
    /\ UNCHANGED <<data, family, params, initial_capital, commission, strategy,
                   signals_df, frame, last, clock, shadow, response>>

Next == Backtest \/ ExecuteTrades \/ Return

Spec == Init /\ [][Next]_vars

---------------------------------------------------------------------------
(* BacktestEngine.run_backtest.  data is what _get_price_data returned, in   *)
(* date order; the request's symbol and date range select it and are echoed  *)
(* into the result unchanged.                                                *)

\* self.strategy_classes, backtest_engine.py lines 27-31
StrategyClasses == {"sma_crossover", "macd_rsi", "bollinger_bands"}

\* an unregistered family served by the SMA crossover class
LookupClassOrDefault(fam) ==
    IF fam \in StrategyClasses THEN fam ELSE "sma_crossover"

\* self.strategy_classes.get(strategy_family): None ("none") when unregistered
LookupClass(fam) == IF fam \in StrategyClasses THEN fam ELSE "none"

\* the answer of validate_params not looked at
ValidateParamsUnchecked(fam, ps) == TRUE

\* strategy.validate_params(params)
ValidateParams(fam, ps) ==
    CASE fam = "sma_crossover" -> SmaValidateParams(ps)
      [] fam = "macd_rsi" -> MacdValidateParams(ps)
      [] fam = "bollinger_bands" -> BollingerValidateParams(ps)

SmaParams ==
    {[short_window |-> 1, long_window |-> 2],
     [short_window |-> 2, long_window |-> 3],
     [short_window |-> 2, long_window |-> 2],
     [short_window |-> 1]}

MacdParams ==
    {[macd_fast |-> 1, macd_slow |-> 2, macd_signal |-> 2, rsi_period |-> 1],
     [macd_fast |-> 1, macd_slow |-> 3, macd_signal |-> 2, rsi_period |-> 2],
     [macd_fast |-> 2, macd_slow |-> 1, macd_signal |-> 2, rsi_period |-> 1],
     [macd_fast |-> 1, macd_slow |-> 2, macd_signal |-> 2, rsi_period |-> 1,
      rsi_overbought |-> [str |-> "70"]],
     [macd_fast |-> 1, macd_slow |-> 2, macd_signal |-> 2, rsi_period |-> 1,
      rsi_oversold |-> [str |-> "30"]]}

BollingerParams ==
    {[period |-> 2, std_dev |-> [num |-> 1, den |-> 2],
      exit_threshold |-> [num |-> 1, den |-> 2]],
     [period |-> 3, std_dev |-> [num |-> 1, den |-> 1],
      exit_threshold |-> [num |-> 1, den |-> 10]],
     [period |-> 0, std_dev |-> [num |-> 2, den |-> 1],
      exit_threshold |-> [num |-> 1, den |-> 2]]}

InitEngine ==
    /\ \E n \in 0..MaxBars : data \in Bars(n, EngineCloses)
    /\ \/ family = "sma_crossover" /\ params \in SmaParams
       \/ family = "macd_rsi" /\ params \in MacdParams
       \/ family = "bollinger_bands" /\ params \in BollingerParams
       \/ family = "momentum" /\ params = [short_window |-> 1, long_window |-> 2]
    /\ initial_capital \in Capitals
    /\ commission \in EngineRates
    /\ strategy = [family |-> "none", name |-> "none", params |-> params,
                   equity_curve |-> <<>>]
    /\ signals_df = <<>>
    /\ frame = NewFrame(initial_capital, "engine")
    /\ pc = "idle"
    /\ last = NoBar
    /\ results = <<>>
    /\ clock = 0
    /\ response = NoResponse
    /\ shadow = NewFrame(initial_capital, "none")

\* run_backtest up to the call of _execute_trades, backtest_engine.py lines
\* 45-69 and base.py lines 40-45
RunBacktest ==
    /\ pc \in {"idle", "returned"}
    /\ Len(results) < MaxRuns
    /\ last' = NoBar
    /\ IF data = <<>>
       THEN /\ results' = Append(results, ErrorResult("No price data found"))
            /\ pc' = "returned"
            /\ UNCHANGED <<strategy, signals_df, frame>>
       ELSE IF LookupClass(family) = "none"
       THEN /\ results' = Append(results, ErrorResult("Unknown strategy family"))
            /\ pc' = "returned"
            /\ UNCHANGED <<strategy, signals_df, frame>>
       ELSE IF ~ValidateParams(LookupClass(family), params)
       THEN /\ strategy' = NewStrategy(LookupClass(family), params)
            /\ results' = Append(results, ErrorResult("Invalid strategy parameters"))
            /\ pc' = "returned"
            /\ UNCHANGED <<signals_df, frame>>
       ELSE /\ strategy' = NewStrategy(LookupClass(family), params)
            /\ signals_df' = GenerateSignals(LookupClass(family), params, data)
            /\ frame' = NewFrame(initial_capital, "engine")
            /\ pc' = "execute"
            /\ UNCHANGED results
    /\ UNCHANGED <<data, family, params, initial_capital, commission, clock, shadow, response>>

\* result.update(...), backtest_engine.py lines 71-84
EngineValue ==
    LET r == BacktestValue
    IN  IF "error" \in DOMAIN r THEN r
        ELSE [strategy_name |-> r.strategy_name, parameters |-> r.parameters,
              trades |-> r.trades, metrics |-> r.metrics,
              equity_curve |-> r.equity_curve, backtest_date |-> r.backtest_date,
              initial_capital |-> initial_capital, commission |-> commission,
              strategy_family |-> family]

\* the loop is over in a backtest the engine called
EngineReturn ==
    /\ pc = "execute"
    /\ frame.via = "engine"
    /\ frame.i = Len(signals_df)
    /\ results' = Append(results, EngineValue)
    /\ pc' = "returned"
    /\ UNCHANGED <<data, family, params, initial_capital, commission, strategy,
                   signals_df, frame, last, clock, shadow, response>>

\* Time passes between two calls.  The clock is read once per call, as the
\* call returns, and only the order and equality of the readings matter, so the
\* first call is at 0 and time that passes during a call is time that passed
\* before it.
Tick ==
    /\ pc = "returned"
    /\ clock < MaxClock
    /\ clock' = clock + 1
    /\ UNCHANGED <<data, family, params, initial_capital, commission, strategy,
                   signals_df, frame, pc, last, results, shadow, response>>

NextEngine == RunBacktest \/ ExecuteTrades \/ EngineReturn \/ Tick

SpecEngine == InitEngine /\ [][NextEngine]_vars

---------------------------------------------------------------------------
(* Properties of _execute_trades and backtest, under Spec *)

\* the trades the latest bar appended, in the order they were appended
EmittedOnLast ==
    SubSeq(frame.trades, Len(frame.trades) - last.emitted + 1, Len(frame.trades))

BarDone == pc \in {"execute", "returned"} /\ last.date > 0

RECURSIVE SumCashFlows(_)
SumCashFlows(ts) ==
    IF ts = <<>> THEN 0 ELSE ts[1].cash_flow + SumCashFlows(Tail(ts))

\* C1: a trade is emitted on a bar only if the signal differs from the direction
\* (sign, 0 if flat) of the position held entering the bar, so none is emitted
\* while a position is held and the signal has its direction; and when a
\* position is held and the signal differs from its direction, a trade is
\* emitted.  (The remaining case of the equivalence, a flat position with a
\* non-zero signal, emits a trade only when the sizing yields a share.)
C1_TradeIffDirectionDiffers ==
    BarDone =>
        /\ last.emitted > 0 => last.signal # Sign(last.position_in)
        /\ (last.position_in # 0 /\ last.signal # Sign(last.position_in))
              => last.emitted > 0

\* C2: every snapshot of the equity curve has equity = cash + position * price
C2_EquityIdentity ==
    \A k \in 1..Len(strategy.equity_curve) :
        LET s == strategy.equity_curve[k]
        IN  s.equity = s.cash + s.position * s.price * RateDen

C2_Witness ==
    /\ Len(strategy.equity_curve) >= 2
    /\ \E k \in 1..Len(strategy.equity_curve) :
          strategy.equity_curve[k].position < 0
    /\ \E k \in 1..Len(strategy.equity_curve) :
          strategy.equity_curve[k].position > 0

\* C3: the equity curve of every returned result has exactly one snapshot per
\* input bar, in bar order
C3_OneSnapshotPerBar ==
    \A r \in 1..Len(results) :
        "equity_curve" \in DOMAIN results[r] =>
            /\ Len(results[r].equity_curve) = Len(data)
            /\ \A k \in 1..Len(results[r].equity_curve) :
                  results[r].equity_curve[k].date = data[k].date

\* C4: the cash flows of the trades emitted so far plus position * price equal
\* equity - initial_capital, and cash is initial_capital plus those cash flows
C4_Conservation ==
    BarDone =>
        /\ SumCashFlows(frame.trades) + frame.position * last.price * RateDen
              = frame.equity - initial_capital * RateDen
        /\ frame.cash = initial_capital * RateDen + SumCashFlows(frame.trades)

C4_Witness ==
    /\ pc = "returned"
    /\ Len(frame.trades) >= 3
    /\ frame.position # 0
    /\ commission > 0

\* C5: every equity snapshot is non-negative and the reported max_drawdown lies
\* in [-1, 0]
C5_EquityNonNegative ==
    /\ \A k \in 1..Len(strategy.equity_curve) :
          strategy.equity_curve[k].equity >= 0
    /\ \A r \in 1..Len(results) :
          ("metrics" \in DOMAIN results[r]
              /\ "max_drawdown" \in DOMAIN results[r].metrics) =>
             LET d == results[r].metrics.max_drawdown
             IN  /\ d.den > 0
                 /\ d.num <= 0
                 /\ d.num >= 0 - d.den

\* C8: when the signal is non-zero and the share count computed from 95% of the
\* cash is 0, the bar emits no open trade, leaves the position flat and leaves
\* the cash as it was after the close leg
C8_NoOpenWithoutShares ==
    (BarDone /\ last.signal # 0 /\ last.sized /\ last.shares = 0) =>
        /\ ~last.opened
        /\ \A k \in 1..Len(frame.trades) :
              frame.trades[k].date = last.date => frame.trades[k].action # "open"
        /\ frame.position = 0
        /\ frame.cash = last.cash_closed

C8_Witness ==
    /\ BarDone /\ last.signal # 0 /\ last.sized /\ last.shares = 0
    /\ last.closed

\* C9: a signal opposite to the held position emits, on that bar, first a close
\* of the whole position and then, if the sizing yields a share, an open in the
\* new direction, both with the bar's date and price
C9_ReversalClosesThenOpens ==
    (BarDone /\ last.position_in # 0 /\ last.signal = 0 - Sign(last.position_in)) =>
        LET em == EmittedOnLast
        IN  /\ Len(em) = IF last.shares > 0 THEN 2 ELSE 1
            /\ em[1].action = "close"
            /\ em[1].shares = 0 - last.position_in
            /\ em[1].date = last.date /\ em[1].price = last.price
            /\ last.shares > 0 =>
                  /\ em[2].action = "open"
                  /\ Sign(em[2].shares) = last.signal
                  /\ em[2].date = last.date /\ em[2].price = last.price

C9_Witness ==
    /\ BarDone /\ last.position_in < 0 /\ last.signal = 1
    /\ last.opened
    /\ Len(frame.trades) >= 3

---------------------------------------------------------------------------
(* _execute_trades run twice on the same rows: at the rate commission       *)
(* (frame) and at twice that rate (shadow)                                  *)

PositiveRates == Rates \ {0}

InitCommission ==
    /\ \E n \in 0..MaxPairBars :
          /\ data \in Bars(n, Closes)
          /\ \E sig \in [1..n -> Signals] : params = [signal |-> sig]
    /\ family = "scripted"
    /\ initial_capital \in Capitals
    /\ commission \in PositiveRates
    /\ strategy = NewStrategy(family, params)
    /\ signals_df = GenerateSignals(family, params, data)
    /\ frame = NewFrame(initial_capital, "caller")
    /\ pc = "execute"
    /\ last = NoBar
    /\ results = <<>>
    /\ clock = 0
    /\ response = NoResponse
    /\ shadow = NewFrame(initial_capital, "caller")

\* the same row through both runs
ExecuteBoth ==
    /\ pc = "execute"
    /\ frame.i < Len(signals_df)
    /\ LET row == signals_df[frame.i + 1]
           r == ExecuteBar(frame, row.date, row, commission)
           d == ExecuteBar(shadow, row.date, row, 2 * commission)
       IN  /\ frame' = [frame EXCEPT !.trades = r.trades, !.position = r.position,
                                     !.cash = r.cash, !.equity = r.equity,
                                     !.i = frame.i + 1]
           /\ shadow' = [shadow EXCEPT !.trades = d.trades, !.position = d.position,
                                       !.cash = d.cash, !.equity = d.equity,
                                       !.i = shadow.i + 1]
           /\ strategy' = AppendSnapshots(strategy, r.snapshots)
           /\ last' = r.did
    /\ UNCHANGED <<data, family, params, initial_capital, commission,
                   signals_df, pc, results, clock, response>>

\* both loops are over
BothReturn ==
    /\ pc = "execute"
    /\ frame.i = Len(signals_df)
    /\ pc' = "returned"
    /\ UNCHANGED <<data, family, params, initial_capital, commission, strategy,
                   signals_df, frame, last, results, clock, shadow, response>>

NextCommission == ExecuteBoth \/ BothReturn

SpecCommission == InitCommission /\ [][NextCommission]_vars

\* the two runs emitted the same trades: same bars, actions and share counts
SameTrades ==
    /\ Len(frame.trades) = Len(shadow.trades)
    /\ \A k \in 1..Len(frame.trades) :
          /\ frame.trades[k].date = shadow.trades[k].date
          /\ frame.trades[k].action = shadow.trades[k].action
          /\ frame.trades[k].shares = shadow.trades[k].shares

\* C7 as stated: at twice the rate the final equity is less than or equal, and
\* strictly less when a trade occurred
C7_DoubledRateLowersEquity ==
    pc = "returned" =>
        /\ shadow.equity <= frame.equity
        /\ (Len(frame.trades) > 0 \/ Len(shadow.trades) > 0)
              => shadow.equity < frame.equity

\* no bar of the run met a short target or a signal equal in direction to a
\* held position: the run is one on which _execute_trades compares and books
\* as the transition rule prescribes
PlainLongRun ==
    \A k \in 1..Len(signals_df) :
        /\ signals_df[k].signal \in {0, 1}
        /\ k > 1 => ~(signals_df[k].signal = 1 /\ signals_df[k - 1].signal = 1)

\* C7 as stated, on the plain long runs alone
C7_DoubledRateLowersEquityLongOnly ==
    (pc = "returned" /\ PlainLongRun) =>
        /\ shadow.equity <= frame.equity
        /\ (Len(frame.trades) > 0 \/ Len(shadow.trades) > 0)
              => shadow.equity < frame.equity

\* C7 amended: when the two runs emit the same trades, at twice the rate the
\* final equity is less than or equal, and strictly less when a trade occurred
C7_DoubledRateLowersEquitySameTrades ==
    (pc = "returned" /\ SameTrades) =>
        /\ shadow.equity <= frame.equity
        /\ Len(frame.trades) > 0 => shadow.equity < frame.equity

C7_Witness ==
    /\ pc = "returned" /\ SameTrades
    /\ Len(frame.trades) >= 2
    /\ shadow.equity < frame.equity

---------------------------------------------------------------------------
(* Properties of run_backtest and of the generators, under SpecEngine.  The  *)
(* inputs of a behaviour are fixed, so every run of it has identical inputs. *)

\* C6 as stated: two runs with identical inputs return results equal in every
\* field
C6_IdenticalRunsEqual ==
    \A a, b \in 1..Len(results) : results[a] = results[b]

\* a result without its backtest_date
WithoutDate(r) == [f \in DOMAIN r \ {"backtest_date"} |-> r[f]]

\* C6 amended: two runs with identical inputs return results equal in every
\* field other than backtest_date
C6_IdenticalRunsEqualButDate ==
    \A a, b \in 1..Len(results) :
        WithoutDate(results[a]) = WithoutDate(results[b])

C6_Witness ==
    /\ Len(results) >= 2
    /\ "trades" \in DOMAIN results[1]
    /\ Len(results[1].trades) >= 2
    /\ results[1].backtest_date # results[2].backtest_date

\* C10: what generate_signals returned has as many rows as the price series,
\* and its k-th row carries the date and the close of the k-th bar
C10_SignalsAlignedWithBars ==
    pc = "execute" =>
        /\ Len(signals_df) = Len(data)
        /\ \A k \in 1..Len(signals_df) :
              /\ signals_df[k].date = data[k].date
              /\ signals_df[k].close = data[k].close

C10_Witness ==
    /\ pc = "execute"
    /\ family = "sma_crossover"
    /\ Len(data) = MaxBars
    /\ Len(data) >= params.long_window
    /\ \E k \in 2..Len(signals_df) : signals_df[k].signal # 0

\* C11: every signal a generator produced is -1, 0 or +1
C11_SignalsInRange ==
    \A k \in 1..Len(signals_df) : signals_df[k].signal \in {-1, 0, 1}

\* C12: for the SMA crossover generator every bar before the long window is
\* full (the first bar included) has signal 0, and _execute_trades emits no
\* trade on such a bar
C12_SmaWarmupIsZero ==
    (family = "sma_crossover" /\ ValidateParams(family, params)
        /\ pc \in {"execute", "returned"}) =>
        /\ \A k \in 1..Len(signals_df) :
              k < params.long_window => signals_df[k].signal = 0
        /\ (last.date > 0 /\ last.date < params.long_window) => last.emitted = 0

\* an SMA crossover request with valid parameters on a non-empty series, answered
SmaRunReturned ==
    /\ family = "sma_crossover" /\ ValidateParams(family, params)
    /\ data # <<>>
    /\ pc = "returned" /\ Len(results) > 0

ConstantClose == \A j, k \in 1..Len(data) : data[j].close = data[k].close

\* C13: the SMA crossover backtest on a constant close emits no trade and
\* returns the no-trades metrics result
C13_FlatSeriesNoTrades ==
    (SmaRunReturned /\ ConstantClose) =>
        LET r == results[Len(results)]
        IN  /\ frame.trades = <<>>
            /\ "trades" \in DOMAIN r
            /\ r.trades = <<>>
            /\ r.metrics = [error |-> "No trades executed"]

StrictlyIncreasing == \A k \in 2..Len(data) : data[k - 1].close < data[k].close

\* the capital buys at least one share at the close of every bar
BuysAShareOnEveryBar ==
    \A k \in 1..Len(data) : ShareCount(initial_capital * RateDen, data[k].close) > 0

\* C14: the SMA crossover backtest on a strictly increasing close of at least
\* long_window bars emits exactly one trade, an open with positive shares, and
\* ends with equity = initial capital + shares * (final close - open price)
\* - the open's commission.  Stated for a capital that buys a share on every
\* bar, so that sizing alone cannot keep the run flat.
C14_RisingSeriesOneOpen ==
    (SmaRunReturned /\ StrictlyIncreasing /\ Len(data) >= params.long_window
        /\ BuysAShareOnEveryBar) =>
        LET r == results[Len(results)]
        IN  /\ "trades" \in DOMAIN r
            /\ Len(r.trades) = 1
            /\ r.trades[1].action = "open"
            /\ r.trades[1].shares > 0
            /\ frame.equity = initial_capital * RateDen
                  + r.trades[1].shares
                      * (data[Len(data)].close - r.trades[1].price) * RateDen
                  - r.trades[1].commission

\* the parameters of a registered family that its validate_params rejects
Rejected ==
    \/ family = "sma_crossover" /\ ~SmaValidateParams(params)
    \/ family = "macd_rsi" /\ ~MacdValidateParams(params)
    \/ family = "bollinger_bands" /\ ~BollingerValidateParams(params)

\* C15: when validate_params rejects the parameters, run_backtest returns an
\* error result and generate_signals, _execute_trades and _calculate_metrics
\* are never entered: no signal frame, no bar consumed, no trade, no snapshot,
\* and with price data the error is the rejection
C15_RejectedBeforeComputation ==
    Rejected =>
        /\ pc # "execute"
        /\ signals_df = <<>>
        /\ frame.i = 0 /\ frame.trades = <<>>
        /\ strategy.equity_curve = <<>>
        /\ \A r \in 1..Len(results) :
              /\ "error" \in DOMAIN results[r]
              /\ data # <<>> =>
                    results[r] = ErrorResult("Invalid strategy parameters")

C15_Witness ==
    /\ Rejected
    /\ Len(data) = MaxBars
    /\ Len(results) = MaxRuns
    /\ "long_window" \notin DOMAIN params

\* C16 as stated: a request for an unregistered family fails with the
\* unknown-strategy error whatever the other inputs, also without price data
C16_UnknownFamilyAlwaysReported ==
    family \notin StrategyClasses =>
        \A r \in 1..Len(results) :
            results[r] = ErrorResult("Unknown strategy family")

\* C16 amended: a request for an unregistered family fails with the
\* unknown-strategy error when price data was found, and with the
\* no-price-data error when none was; nothing is computed for it
C16_UnknownFamilyReportedWithData ==
    family \notin StrategyClasses =>
        /\ pc # "execute" /\ signals_df = <<>>
        /\ \A r \in 1..Len(results) :
              results[r] = IF data = <<>>
                           THEN ErrorResult("No price data found")
                           ELSE ErrorResult("Unknown strategy family")

C16_Witness ==
    /\ family \notin StrategyClasses
    /\ Len(data) = MaxBars
    /\ Len(results) = MaxRuns
    /\ results[MaxRuns] = ErrorResult("Unknown strategy family")

\* the bars a family's rolling window needs before it yields a value
WarmupWindow ==
    CASE family = "sma_crossover" -> LongWindow(params)
      [] family = "macd_rsi" -> params.rsi_period
      [] family = "bollinger_bands" -> params.period

\* C17: a non-empty series shorter than the strategy's warm-up window, or of
\* fewer than 2 bars (so fewer than 2 equity snapshots), is answered with an
\* error result, not with an ordinary result
C17_ShortSeriesIsError ==
    (family \in StrategyClasses /\ ~Rejected /\ data # <<>>
        /\ (Len(data) < WarmupWindow \/ Len(data) < 2)) =>
        \A r \in 1..Len(results) : "error" \in DOMAIN results[r]

\* the latest run got as far as generate_signals
RunGenerated ==
    /\ pc = "returned" /\ Len(results) > 0
    /\ family \in StrategyClasses /\ ~Rejected /\ data # <<>>

\* C18: when generate_signals raised, or _calculate_metrics raised, the value
\* returned carries a top-level error
C18_FailureIsTagged ==
    RunGenerated =>
        /\ GenerateRaised(family, params)
              => "error" \in DOMAIN results[Len(results)]
        /\ (frame.i = Len(signals_df)
              /\ CalculateMetrics(frame.trades, initial_capital,
                                  strategy.equity_curve).raised)
              => "error" \in DOMAIN results[Len(results)]

\* the window ending at row k is full and its closes are all equal: the rolling
\* deviation is 0 and the two bands coincide
ZeroWidthBand(k) ==
    /\ params.period >= 2 /\ k >= params.period
    /\ params.period * WindowSumSq(data, k, params.period)
          = WindowSum(data, k, params.period) * WindowSum(data, k, params.period)

\* C20: for the Bollinger generator every bar whose window is full and whose
\* bands coincide has signal 0
C20_ZeroWidthBandIsFlat ==
    (family = "bollinger_bands" /\ ~Rejected) =>
        \A k \in 1..Len(signals_df) :
            ZeroWidthBand(k) => signals_df[k].signal = 0

(***************************************************************************)
(* The RSI of macd_rsi.py lines 54-59 on bars without a loss               *)
(***************************************************************************)

\* the MACD line crosses below its signal line on row k, lines 74-75
MacdCrossDown(k) ==
    /\ k > 1
    /\ FCompare(MacdLine(data, params)[k], MacdSignalLine(data, params)[k]) < 0
    /\ FCompare(MacdLine(data, params)[k - 1],
                MacdSignalLine(data, params)[k - 1]) >= 0

\* the RSI window ending at row k is full and holds no falling close
NoLossWindow(k) ==
    /\ k >= params.rsi_period
    /\ LossSum(data, k, params.rsi_period) = 0

MacdRunGenerated ==
    /\ family = "macd_rsi" /\ MacdValidateParams(params) /\ ~MacdRaised(params)
    /\ pc # "idle" /\ Len(signals_df) = Len(data)

\* C21: on every bar whose RSI window has a zero mean loss the RSI counts as
\* 100: a cross-down sells when rsi_oversold < 100, and no buy fires unless
\* rsi_overbought > 100
C21_ZeroLossIsRsi100 ==
    MacdRunGenerated =>
        \A k \in 1..Len(signals_df) :
            NoLossWindow(k) =>
                /\ (MacdCrossDown(k) /\ RsiOversold(params).num < 100)
                      => signals_df[k].signal = -1
                /\ signals_df[k].signal = 1 => RsiOverbought(params).num > 100

(***************************************************************************)
(* The metrics of a finished backtest, base.py lines 126-172               *)
(***************************************************************************)

\* backtest returned a result whose metrics were computed
MetricsReturned ==
    /\ pc = "returned" /\ Len(results) > 0
    /\ "metrics" \in DOMAIN results[Len(results)]
    /\ "total_return" \in DOMAIN results[Len(results)].metrics

\* C22: with at least two snapshots and a non-empty trade list, total_return
\* equals E_(n-1) / E_0 - 1 for the first snapshot E_0 and the last E_(n-1)
C22_TotalReturnOverFirstSnapshot ==
    MetricsReturned =>
        LET r == results[Len(results)]
            ev == EquityValues(r.equity_curve)
        IN  (Len(ev) >= 2 /\ r.trades # <<>>) =>
                r.metrics.total_return.num * ev[1]
                    = (ev[Len(ev)] - ev[1]) * r.metrics.total_return.den

\* C22, amended: total_return equals (E_(n-1) - initial_capital) /
\* initial_capital, whatever the first snapshot is
C22_TotalReturnOverInitialCapital ==
    MetricsReturned =>
        LET r == results[Len(results)]
            ev == EquityValues(r.equity_curve)
        IN  (Len(ev) >= 2 /\ r.trades # <<>>) =>
                r.metrics.total_return.num * (initial_capital * RateDen)
                    = (ev[Len(ev)] - initial_capital * RateDen)
                          * r.metrics.total_return.den

\* a trade on the first bar paid a commission: E_0 is below initial_capital
C22_Witness ==
    /\ MetricsReturned
    /\ Len(results[Len(results)].equity_curve) >= 2
    /\ results[Len(results)].trades # <<>>
    /\ results[Len(results)].equity_curve[1].equity < initial_capital * RateDen

\* the loop of _execute_trades ran over every bar of a non-empty series
LoopFinished ==
    /\ pc = "returned" /\ Len(results) > 0
    /\ Len(signals_df) > 0 /\ frame.i = Len(signals_df)

\* C23: no close is forced after the last bar: when the final position is
\* non-zero the trade list ends with an open trade, the final snapshot marks
\* that position at the last close, and the metrics report
\* total_trades = floor(len(trades) / 2), the trailing open in no pair
C23_NoForcedClose ==
    (LoopFinished /\ frame.position # 0) =>
        LET n == Len(frame.trades)
            curve == strategy.equity_curve
            final == curve[Len(curve)]
            bar == signals_df[Len(signals_df)]
        IN  /\ n > 0 /\ frame.trades[n].action = "open"
            /\ frame.trades[n].shares = frame.position
            /\ final.date = bar.date /\ final.price = bar.close
            /\ final.position = frame.position
            /\ final.equity = frame.cash + frame.position * bar.close * RateDen
            /\ \A j \in 1..Len(TradePairs(frame.trades)) :
                  /\ TradePairs(frame.trades)[j].open_trade.action = "open"
                  /\ TradePairs(frame.trades)[j].close_trade.action = "close"
                  /\ TradePairs(frame.trades)[j].close_trade # frame.trades[n]
            /\ MetricsReturned =>
                  /\ results[Len(results)].trades = frame.trades
                  /\ results[Len(results)].metrics.total_trades = n \div 2
                  /\ 2 * results[Len(results)].metrics.total_trades = n - 1

\* a round trip was completed and a later open is still held at the end
C23_Witness ==
    /\ LoopFinished /\ frame.position # 0 /\ MetricsReturned
    /\ Len(frame.trades) = 3
    /\ results[Len(results)].metrics.total_trades = 1

\* the ratio entries that go with the metrics of the last result
LastRatios ==
    RatioMetrics(results[Len(results)].trades, initial_capital,
                 results[Len(results)].equity_curve)

\* C24: each ratio metric is the literal 0 when its denominator is 0:
\* sharpe_ratio for a zero volatility, calmar_ratio for a zero max_drawdown,
\* profit_factor for a zero avg_loss, win_rate without a completed pair
C24_ZeroDenominatorGivesZero ==
    MetricsReturned =>
        /\ LastRatios.volatility.class = "zero"
              => LastRatios.sharpe_ratio = ZeroMetric
        /\ results[Len(results)].metrics.max_drawdown.num = 0
              => LastRatios.calmar_ratio = ZeroMetric
        /\ LastRatios.avg_loss.num = 0
              => LastRatios.profit_factor = ZeroMetric
        /\ TradePairs(results[Len(results)].trades) = <<>>
              => LastRatios.win_rate = ZeroMetric

\* a run whose equity never moved and whose only trade is still open: the four
\* denominators are 0 at once
C24_Witness ==
    /\ MetricsReturned
    /\ LastRatios.volatility.class = "zero"
    /\ results[Len(results)].metrics.max_drawdown.num = 0
    /\ LastRatios.avg_loss.num = 0
    /\ TradePairs(results[Len(results)].trades) = <<>>

---------------------------------------------------------------------------
(* generate_signals called on a frame of the caller's.  The generators      *)
(* assign their indicator columns and the signal column on the frame they   *)
(* are given; the drop of the last lines builds a new frame for the return  *)
(* value and leaves the argument with every column assigned before it.      *)

\* close.rolling(window=w).mean() at row k: NaN while the window is not full
RollingMean(df, k, w) ==
    IF k < w THEN [num |-> NaN, den |-> 1] ELSE Frac(WindowSum(df, k, w), w)

\* close.rolling(window=w).std() at row k, held by the sample variance it is
\* the root of: NaN while the window is not full and for a window of 1
RollingStd(df, k, w) ==
    IF k < w \/ w = 1 THEN [variance |-> [num |-> NaN, den |-> 1]]
    ELSE [variance |-> Frac(w * WindowSumSq(df, k, w)
                               - WindowSum(df, k, w) * WindowSum(df, k, w),
                            w * (w - 1))]

\* the argument after sma_cross.py lines 44-58
ArgumentAfterSma(df, ps) ==
    [k \in 1..Len(df) |->
        [date |-> df[k].date, close |-> df[k].close,
         sma_short |-> RollingMean(df, k, ShortWindow(ps)),
         sma_long |-> RollingMean(df, k, LongWindow(ps)),
         signal |-> SmaSignalAt(df, k, ps),
         position |-> SmaSignalAt(df, k, ps)]]

\* the argument after macd_rsi.py lines 50-78 (or up to the comparison that
\* raised)
ArgumentAfterMacd(df, ps) ==
    [k \in 1..Len(df) |->
        [date |-> df[k].date, close |-> df[k].close,
         macd |-> MacdLine(df, ps)[k],
         macd_signal |-> MacdSignalLine(df, ps)[k],
         macd_histogram |-> FSub(MacdLine(df, ps)[k], MacdSignalLine(df, ps)[k]),
         rsi |-> RsiAt(df, k, ps),
         signal |-> MacdSignalAt(df, k, ps)]]

\* the argument after bollinger.py lines 46-70; the bands and bb_position are
\* carried as the expressions of lines 48, 49 and 52
ArgumentAfterBollinger(df, ps) ==
    [k \in 1..Len(df) |->
        LET sma == RollingMean(df, k, ps.period)
            std == RollingStd(df, k, ps.period)
            upper_band == [sma |-> sma, plus |-> [std |-> std, times |-> ps.std_dev]]
            lower_band == [sma |-> sma, minus |-> [std |-> std, times |-> ps.std_dev]]
        IN  [date |-> df[k].date, close |-> df[k].close,
             sma |-> sma, std |-> std,
             upper_band |-> upper_band, lower_band |-> lower_band,
             bb_position |-> [num |-> [close |-> df[k].close, minus |-> lower_band],
                              den |-> [upper_band |-> upper_band,
                                       minus |-> lower_band]],
             signal |-> BollingerSignalAt(df, k, ps)]]

\* the frame passed to generate_signals, as the call leaves it
ArgumentAfterGenerate(fam, ps, df) ==
    CASE fam = "sma_crossover" -> ArgumentAfterSma(df, ps)
      [] fam = "macd_rsi" -> ArgumentAfterMacd(df, ps)
      [] fam = "bollinger_bands" -> ArgumentAfterBollinger(df, ps)

\* a strategy of one of the three classes, built on parameters its validator
\* accepts, and a frame of price bars held by the caller
InitGenerate ==
    /\ \E n \in 0..MaxBars : data \in Bars(n, EngineCloses)
    /\ family \in StrategyClasses
    /\ params \in SmaParams \cup MacdParams \cup BollingerParams
    /\ CASE family = "sma_crossover" -> params \in SmaParams
         [] family = "macd_rsi" -> params \in MacdParams
         [] family = "bollinger_bands" -> params \in BollingerParams
    /\ ValidateParams(family, params)
    /\ initial_capital = 10
    /\ commission = 2
    /\ strategy = NewStrategy(family, params)
    /\ signals_df = <<>>
    /\ frame = NewFrame(initial_capital, "none")
    /\ pc = "idle"
    /\ last = NoBar
    /\ results = <<>>
    /\ clock = 0
    /\ response = NoResponse
    /\ shadow = NewFrame(initial_capital, "none")

\* signals_df = strategy.generate_signals(data), on the caller's own frame
GenerateCall ==
    /\ pc = "idle"
    /\ signals_df' = GenerateSignals(strategy.family, strategy.params, data)
    /\ data' = ArgumentAfterGenerate(strategy.family, strategy.params, data)
    /\ pc' = "generated"
    /\ UNCHANGED <<family, params, initial_capital, commission, strategy,
                   frame, last, results, clock, shadow, response>>

NextGenerate == GenerateCall

SpecGenerate == InitGenerate /\ [][NextGenerate]_vars

\* C25: after generate_signals the frame passed to it has the columns and the
\* values it had before: the dates and closes the returned frame was built
\* from, and no indicator or signal column
C25_ArgumentUnchanged ==
    pc = "generated" =>
        /\ Len(data) = Len(signals_df)
        /\ \A k \in 1..Len(data) :
              data[k] = [date |-> signals_df[k].date, close |-> signals_df[k].close]

---------------------------------------------------------------------------
(* Two run_backtest invocations in flight on one BacktestEngine.  The first *)
(* runs on the variables of the engine specification; the second holds its  *)
(* own arguments, its own Strategy instance (line 62 builds one per call)   *)
(* and its own locals in the record shadow, and the steps of the two        *)
(* interleave freely.  The engine's only attribute, strategy_classes, is    *)
(* read and never written.                                                  *)

\* the requests the two invocations are drawn from
FirstRequests ==
    {[family |-> "sma_crossover", params |-> [short_window |-> 1, long_window |-> 2]],
     [family |-> "sma_crossover", params |-> [short_window |-> 2, long_window |-> 2]],
     [family |-> "macd_rsi",
      params |-> [macd_fast |-> 1, macd_slow |-> 2, macd_signal |-> 2,
                  rsi_period |-> 1]],
     [family |-> "bollinger_bands",
      params |-> [period |-> 2, std_dev |-> [num |-> 1, den |-> 2],
                  exit_threshold |-> [num |-> 1, den |-> 2]]]}

SecondRequests ==
    {[family |-> "sma_crossover", params |-> [short_window |-> 1, long_window |-> 2]],
     [family |-> "bollinger_bands",
      params |-> [period |-> 2, std_dev |-> [num |-> 1, den |-> 2],
                  exit_threshold |-> [num |-> 1, den |-> 2]]],
     [family |-> "momentum", params |-> [short_window |-> 1, long_window |-> 2]]}

InitConcurrent ==
    /\ \E n \in 0..MaxConcurrentBars : data \in Bars(n, EngineCloses)
    /\ \E q \in FirstRequests : family = q.family /\ params = q.params
    /\ initial_capital \in Capitals
    /\ commission \in EngineRates
    /\ strategy = [family |-> "none", name |-> "none", params |-> params,
                   equity_curve |-> <<>>]
    /\ signals_df = <<>>
    /\ frame = NewFrame(initial_capital, "engine")
    /\ pc = "idle"
    /\ last = NoBar
    /\ results = <<>>
    /\ clock = 0
    /\ response = NoResponse
    /\ \E q \in SecondRequests, c \in Capitals :
          shadow = [family |-> q.family, params |-> q.params,
                    initial_capital |-> c,
                    strategy |-> [family |-> "none", name |-> "none",
                                  params |-> q.params, equity_curve |-> <<>>],
                    signals_df |-> <<>>,
                    frame |-> NewFrame(c, "engine"),
                    pc |-> "idle", results |-> <<>>, overlapped |-> FALSE]

\* the first invocation is called once
RunBacktestFirst == pc = "idle" /\ RunBacktest

\* run_backtest of the second invocation up to the call of _execute_trades;
\* overlapped records that the first invocation was in flight at that moment
RunBacktestSecond ==
    /\ shadow.pc = "idle"
    /\ shadow' =
        LET s == [shadow EXCEPT !.overlapped = (pc = "execute")]
        IN  IF data = <<>>
            THEN [s EXCEPT !.results = <<ErrorResult("No price data found")>>,
                           !.pc = "returned"]
            ELSE IF LookupClass(s.family) = "none"
            THEN [s EXCEPT !.results = <<ErrorResult("Unknown strategy family")>>,
                           !.pc = "returned"]
            ELSE IF ~ValidateParams(LookupClass(s.family), s.params)
            THEN [s EXCEPT !.strategy = NewStrategy(LookupClass(s.family), s.params),
                           !.results = <<ErrorResult("Invalid strategy parameters")>>,
                           !.pc = "returned"]
            ELSE [s EXCEPT !.strategy = NewStrategy(LookupClass(s.family), s.params),
                           !.signals_df =
                               GenerateSignals(LookupClass(s.family), s.params, data),
                           !.frame = NewFrame(s.initial_capital, "engine"),
                           !.pc = "execute"]
    /\ UNCHANGED <<data, family, params, initial_capital, commission, strategy,
                   signals_df, frame, pc, last, results, clock, response>>

\* one iteration of the loop of _execute_trades in the second invocation
ExecuteTradesSecond ==
    /\ shadow.pc = "execute"
    /\ shadow.frame.i < Len(shadow.signals_df)
    /\ LET row == shadow.signals_df[shadow.frame.i + 1]
           r == ExecuteBar(shadow.frame, row.date, row, commission)
       IN  shadow' =
             [shadow EXCEPT
                !.frame = [shadow.frame EXCEPT
                             !.trades = r.trades, !.position = r.position,
                             !.cash = r.cash, !.equity = r.equity,
                             !.i = shadow.frame.i + 1],
                !.strategy = AppendSnapshots(shadow.strategy, r.snapshots),
                !.pc = IF r.raised THEN "returned" ELSE "execute",
                !.results = IF r.raised
                            THEN <<ErrorResult("cannot convert float NaN to integer")>>
                            ELSE shadow.results]
    /\ UNCHANGED <<data, family, params, initial_capital, commission, strategy,
                   signals_df, frame, pc, last, results, clock, response>>

\* the value the second invocation returns, base.py lines 48-57 and
\* backtest_engine.py lines 71-84
EngineValueSecond ==
    LET m == CalculateMetrics(shadow.frame.trades, shadow.initial_capital,
                              shadow.strategy.equity_curve)
    IN  IF m.raised THEN ErrorResult(m.metrics.error)
        ELSE [strategy_name |-> shadow.strategy.name,
              parameters |-> shadow.strategy.params,
              trades |-> shadow.frame.trades, metrics |-> m.metrics,
              equity_curve |-> shadow.strategy.equity_curve,
              backtest_date |-> clock,
              initial_capital |-> shadow.initial_capital,
              commission |-> commission,
              strategy_family |-> shadow.family]

EngineReturnSecond ==
    /\ shadow.pc = "execute"
    /\ shadow.frame.i = Len(shadow.signals_df)
    /\ shadow' = [shadow EXCEPT !.results = <<EngineValueSecond>>,
                                !.pc = "returned"]
    /\ UNCHANGED <<data, family, params, initial_capital, commission, strategy,
                   signals_df, frame, pc, last, results, clock, response>>

NextConcurrent ==
    \/ RunBacktestFirst \/ ExecuteTrades \/ EngineReturn
    \/ RunBacktestSecond \/ ExecuteTradesSecond \/ EngineReturnSecond

SpecConcurrent == InitConcurrent /\ [][NextConcurrent]_vars

\* ---- what one invocation returns when nothing else runs: the loop of
\* _execute_trades run to its end on fresh locals and an empty equity curve

RECURSIVE SimulateAlone(_, _, _, _)
SimulateAlone(f, curve, sig, rate) ==
    IF f.i = Len(sig) THEN [frame |-> f, curve |-> curve, raised |-> FALSE]
    ELSE LET row == sig[f.i + 1]
             r == ExecuteBar(f, row.date, row, rate)
         IN  IF r.raised THEN [frame |-> f, curve |-> curve, raised |-> TRUE]
             ELSE SimulateAlone([f EXCEPT !.trades = r.trades,
                                          !.position = r.position,
                                          !.cash = r.cash, !.equity = r.equity,
                                          !.i = f.i + 1],
                                curve \o r.snapshots, sig, rate)

ValueAlone(fam, ps, df, capital, rate) ==
    IF df = <<>> THEN ErrorResult("No price data found")
    ELSE IF fam \notin StrategyClasses THEN ErrorResult("Unknown strategy family")
    ELSE IF ~ValidateParams(fam, ps) THEN ErrorResult("Invalid strategy parameters")
    ELSE LET run == SimulateAlone(NewFrame(capital, "engine"), <<>>,
                                  GenerateSignals(fam, ps, df), rate)
             m == CalculateMetrics(run.frame.trades, capital, run.curve)
         IN  IF run.raised THEN ErrorResult("cannot convert float NaN to integer")
             ELSE IF m.raised THEN ErrorResult(m.metrics.error)
             ELSE [strategy_name |-> StrategyName(fam), parameters |-> ps,
                   trades |-> run.frame.trades, metrics |-> m.metrics,
                   equity_curve |-> run.curve, backtest_date |-> 0,
                   initial_capital |-> capital, commission |-> rate,
                   strategy_family |-> fam]

\* C26: under every interleaving of two invocations on one engine, each
\* returns what it returns when run alone
C26_ConcurrentRunsIndependent ==
    /\ (pc = "returned" /\ Len(results) > 0)
          => results[Len(results)]
                = ValueAlone(family, params, data, initial_capital, commission)
    /\ shadow.pc = "returned"
          => shadow.results[1]
                = ValueAlone(shadow.family, shadow.params, data,
                             shadow.initial_capital, commission)

\* the second invocation started while the first was inside its loop, and both
\* returned results with trades
C26_Witness ==
    /\ pc = "returned" /\ shadow.pc = "returned" /\ shadow.overlapped
    /\ "trades" \in DOMAIN results[Len(results)]
    /\ "trades" \in DOMAIN shadow.results[1]
    /\ results[Len(results)].trades # <<>>
    /\ shadow.results[1].equity_curve # <<>>

---------------------------------------------------------------------------
(* The sizing and the bookkeeping of one bar, base.py lines 80-122         *)

\* sign(s) of a signal; NaN has no sign
SignOfSignal(s) == IF IsNaN(s) THEN NaN ELSE Sign(s)

\* C27: an open trade on a bar with signal s and close p has the magnitude
\* floor(0.95 * cash / p) for the cash left by a close leg of the same bar, the
\* new position is that magnitude times sign(s), the trade's value is
\* magnitude * p, and the open leg and a close leg of the bar each charge
\* notional * commission_rate
C27_OpenSizedFromCashAndSign ==
    (BarDone /\ last.opened) =>
        LET open_trade == frame.trades[Len(frame.trades)]
        IN  /\ last.shares * ALLOC_DEN * RateDen * last.price
                  <= ALLOC_NUM * last.cash_closed
            /\ ALLOC_NUM * last.cash_closed
                  < (last.shares + 1) * ALLOC_DEN * RateDen * last.price
            /\ frame.position = Mul(last.shares, SignOfSignal(last.signal))
            /\ open_trade.value = last.shares * last.price * RateDen
            /\ open_trade.commission = last.shares * last.price * commission
            /\ last.closed =>
                  frame.trades[Len(frame.trades) - 1].commission
                      = Abs(last.position_in) * last.price * commission

RECURSIVE SumCommissions(_)
SumCommissions(ts) ==
    IF ts = <<>> THEN 0 ELSE ts[1].commission + SumCommissions(Tail(ts))

\* C28: on every bar the snapshot equity is the cash entering the bar plus the
\* position entering the bar valued at the close, minus the commissions of the
\* trades emitted on the bar, for long and short positions alike
C28_BarChangesEquityByCommissionsOnly ==
    BarDone =>
        frame.equity = last.cash_in + last.position_in * last.price * RateDen
                          - SumCommissions(EmittedOnLast)

\* C29: after every prefix of the bars the trade list alternates open, close,
\* open, ... from an open; the position is non-zero exactly when the last trade
\* is an open; and every close carries the negated shares of the open before it
C29_TradesAlternate ==
    /\ \A k \in 1..Len(frame.trades) :
          frame.trades[k].action = IF k % 2 = 1 THEN "open" ELSE "close"
    /\ frame.position # 0
          <=> (frame.trades # <<>>
                 /\ frame.trades[Len(frame.trades)].action = "open")
    /\ \A k \in 1..Len(frame.trades) :
          k % 2 = 0 => frame.trades[k].shares = Neg(frame.trades[k - 1].shares)

\* a short was opened, closed, and a long opened after it
C29_Witness ==
    /\ Len(frame.trades) = 3
    /\ frame.trades[1].shares < 0
    /\ frame.trades[2].shares > 0
    /\ frame.position > 0

---------------------------------------------------------------------------
(* POST /run, api/backtest.py lines 31-69: the handler around run_backtest  *)
(* and save_backtest_result                                                 *)

\* HTTPException(status_code=..., detail=...); a subclass of Exception
HTTPException(status_code, detail) ==
    [status_code |-> status_code, detail |-> detail]

\* except Exception as e: raise HTTPException(500, f"Backtest failed: {str(e)}"),
\* lines 68-69.  It encloses lines 43-66, and every exception raised there is an
\* Exception, the HTTPException of line 57 too.
ExceptClause(e) ==
    HTTPException(500, [prefix |-> "Backtest failed: ", cause |-> e])

\* the requests POST /run is tried with
ApiRequests == FirstRequests \cup SecondRequests

\* a request arrives; the ticker row exists or not, and without it there are
\* no price rows
InitApi ==
    /\ \E n \in 0..MaxBars : data \in Bars(n, EngineCloses)
    /\ \E q \in ApiRequests : family = q.family /\ params = q.params
    /\ initial_capital \in Capitals
    /\ commission \in EngineRates
    /\ strategy = [family |-> "none", name |-> "none", params |-> params,
                   equity_curve |-> <<>>]
    /\ signals_df = <<>>
    /\ frame = NewFrame(initial_capital, "engine")
    /\ pc = "idle"
    /\ last = NoBar
    /\ results = <<>>
    /\ clock = 0
    /\ shadow = NewFrame(initial_capital, "none")
    /\ \E found \in BOOLEAN :
          /\ ~found => data = <<>>
          /\ response = [NoResponse EXCEPT !.ticker_found = found]

\* lines 38-40: no ticker row, 404 before anything runs
TickerNotFound ==
    /\ pc = "idle"
    /\ ~response.ticker_found
    /\ response' = [response EXCEPT !.status = 404, !.detail = "Ticker not found"]
    /\ pc' = "responded"
    /\ UNCHANGED <<data, family, params, initial_capital, commission, strategy,
                   signals_df, frame, last, results, clock, shadow>>

\* lines 44-54: engine.run_backtest(...)
RunBacktestCalled == pc = "idle" /\ response.ticker_found /\ RunBacktest

\* Lines 56-69, once run_backtest has returned.  An error result raises
\* HTTPException(400) inside the try, which the except clause answers; a result
\* is saved, and save_backtest_result returns the run id or raises.
Respond ==
    /\ pc = "returned"
    /\ LET result == results[Len(results)]
       IN  IF "error" \in DOMAIN result
           THEN LET e == ExceptClause(HTTPException(400, result.error))
                IN  response' = [response EXCEPT !.status = e.status_code,
                                                 !.detail = e.detail]
           ELSE \E saved \in BOOLEAN :
                  IF saved
                  THEN response' = [response EXCEPT
                                       !.status = 200,
                                       !.detail = "Backtest completed successfully",
                                       !.saves = response.saves + 1]
                  ELSE LET e == ExceptClause([error |-> "save failed"])
                       IN  response' = [response EXCEPT
                                           !.status = e.status_code,
                                           !.detail = e.detail,
                                           !.saves = response.saves + 1]
    /\ pc' = "responded"
    /\ UNCHANGED <<data, family, params, initial_capital, commission, strategy,
                   signals_df, frame, last, results, clock, shadow>>

NextApi ==
    \/ TickerNotFound \/ RunBacktestCalled \/ ExecuteTrades \/ EngineReturn
    \/ Respond

SpecApi == InitApi /\ [][NextApi]_vars

\* C30: when run_backtest returned a result with an error the client gets
\* HTTP 400 carrying that error and save_backtest_result is not called; HTTP
\* 500 answers only an exception raised while running or saving
C30_ErrorResultIs400 ==
    (pc = "responded" /\ response.ticker_found) =>
        /\ "error" \in DOMAIN results[Len(results)]
              => /\ response.saves = 0
                 /\ response.status = 400
                 /\ response.detail = results[Len(results)].error
        /\ response.status = 500
              => /\ "error" \notin DOMAIN results[Len(results)]
                 /\ response.saves = 1

====
